---- MODULE Spec2Model ----
(***************************************************************************)
(* Model of manage.py: the reflection-based command registry               *)
(* (_get_commands), the parser construction (build_parser), the dispatch   *)
(* in main() and the shell proxy CommandProxyMixin.run.                    *)
(*                                                                         *)
(* Python strings are sequences of one-character strings, so that          *)
(* str.lower, str.split and str.join are computed and not assumed.         *)
(* A class is a record: id is the object's identity (what `is` and         *)
(* `in __mro__` compare), name is its __name__.                            *)
(***************************************************************************)
EXTENDS Integers, Sequences, FiniteSets, TLC

\* ---------------------------------------------------------------- bounds
\* number of classes a user declares after the template's own
MaxDecl == 2
\* number of command-line tokens after the script name
MaxArgs == 3

\* ---------------------------------------------------------------- strings
Range(s) == {s[i] : i \in DOMAIN s}

Upper == <<"A","B","C","D","E","F","G","H","I","J","K","L","M",
           "N","O","P","Q","R","S","T","U","V","W","X","Y","Z">>

LowerAlpha == <<"a","b","c","d","e","f","g","h","i","j","k","l","m",
                "n","o","p","q","r","s","t","u","v","w","x","y","z">>

\* str.lower on one character
LowerChar(c) ==
    IF \E i \in DOMAIN Upper : Upper[i] = c
    THEN LowerAlpha[CHOOSE i \in DOMAIN Upper : Upper[i] = c]
    ELSE c

\* str.lower
Lower(s) == [i \in DOMAIN s |-> LowerChar(s[i])]

RECURSIVE Split(_, _)
\* str.split(sep) with a one-character separator: empty tokens are kept
Split(s, sep) ==
    IF \A i \in DOMAIN s : s[i] # sep
    THEN <<s>>
    ELSE LET i == CHOOSE j \in DOMAIN s :
                      s[j] = sep /\ \A k \in 1..(j - 1) : s[k] # sep
         IN  <<SubSeq(s, 1, i - 1)>> \o Split(SubSeq(s, i + 1, Len(s)), sep)

NonEmpty(token) == Len(token) > 0

RECURSIVE Join(_, _)
\* sep.join(list)
Join(list, sep) ==
    IF list = <<>> THEN <<>>
    ELSE IF Len(list) = 1 THEN list[1]
    ELSE list[1] \o sep \o Join(Tail(list), sep)

\* ---------------------------------------------------------------- classes
\* falsy class attribute (None)
None == <<>>

CommandMixin ==
    [id |-> "CommandMixin",
     name |-> <<"C","o","m","m","a","n","d","M","i","x","i","n">>,
     mro |-> <<"CommandMixin", "object">>,
     ownRun |-> TRUE, command |-> None, default |-> None]

CommandProxyMixin ==
    [id |-> "CommandProxyMixin",
     name |-> <<"C","o","m","m","a","n","d","P","r","o","x","y",
                "M","i","x","i","n">>,
     mro |-> <<"CommandProxyMixin", "CommandMixin", "object">>,
     ownRun |-> TRUE, command |-> <<"e","c","h","o">>, default |-> None]

Test ==
    [id |-> "Test",
     name |-> <<"T","e","s","t">>,
     mro |-> <<"Test", "CommandProxyMixin", "CommandMixin", "object">>,
     ownRun |-> FALSE,
     command |-> <<"p","y","t","h","o","n"," ","-","m"," ",
                   "u","n","i","t","t","e","s","t">>,
     default |-> <<"d","i","s","c","o","v","e","r">>]

\* `from pathlib import Path`: a class in globals() that is no command
Path ==
    [id |-> "Path",
     name |-> <<"P","a","t","h">>,
     mro |-> <<"Path", "PurePath", "object">>,
     ownRun |-> FALSE, command |-> None, default |-> None]

\* `import sys`: a value in globals() without __mro__
SysModule ==
    [id |-> "sys",
     name |-> <<"s","y","s">>,
     mro |-> <<>>,
     ownRun |-> FALSE, command |-> None, default |-> None]

\* classes a user of the template may declare (USAGE, step 1)
\* class TEST(CommandMixin): pass
UserTEST ==
    [id |-> "TEST",
     name |-> <<"T","E","S","T">>,
     mro |-> <<"TEST", "CommandMixin", "object">>,
     ownRun |-> FALSE, command |-> None, default |-> None]

\* class Foo(CommandMixin) with its own run(self, **kwargs) that returns
UserFoo ==
    [id |-> "Foo",
     name |-> <<"F","o","o">>,
     mro |-> <<"Foo", "CommandMixin", "object">>,
     ownRun |-> TRUE, command |-> None, default |-> None]

\* class FOO(CommandProxyMixin): command = "echo  -n"
UserFOO ==
    [id |-> "FOO",
     name |-> <<"F","O","O">>,
     mro |-> <<"FOO", "CommandProxyMixin", "CommandMixin", "object">>,
     ownRun |-> FALSE, command |-> <<"e","c","h","o"," "," ","-","n">>,
     default |-> None]

UserClasses == {UserTEST, UserFoo, UserFOO}

\* globals().values() of the template as shipped, in insertion order
TemplateGlobals == <<SysModule, Path, CommandMixin, CommandProxyMixin, Test>>

NoRepeat(s) == \A i, j \in DOMAIN s : i # j => s[i] # s[j]

\* placeholder of command_klass before line 97 assigns it
NoClass ==
    [id |-> "None", name |-> <<>>, mro |-> <<>>,
     ownRun |-> FALSE, command |-> None, default |-> None]


\* what a user may have appended to the template's module
UserDecls ==
    {d \in UNION {[1..n -> UserClasses] : n \in 0..MaxDecl} : NoRepeat(d)}

\* ---------------------------------------------------------------- registry
InMro(id, value) == id \in Range(value.mro)

\* predicate that looks at the direct base only
predicate_direct_base(value) ==
    /\ Len(value.mro) >= 2
    /\ value.mro[2] = "CommandMixin"

\* the lambda of _get_commands
predicate(value) ==
    /\ InMro("CommandMixin", value)
    /\ value # CommandMixin
    /\ value # CommandProxyMixin

\* registry in which a key, once set, is kept
DictCompFirstWins(values) ==
    LET kept == {i \in DOMAIN values : predicate(values[i])}
        keys == {Lower(values[i].name) : i \in kept}
    IN  [k \in keys |->
            values[CHOOSE i \in kept :
                      /\ Lower(values[i].name) = k
                      /\ \A j \in kept :
                            Lower(values[j].name) = k => i <= j]]

\* {value.__name__.lower(): value for value in values if predicate(value)}:
\* the values are stored in iteration order and a value stored under an
\* existing key replaces the earlier one, so that each key ends up with
\* the last value of that key
DictComp(values) ==
    LET kept == {i \in DOMAIN values : predicate(values[i])}
        keys == {Lower(values[i].name) : i \in kept}
    IN  [k \in keys |->
            values[CHOOSE i \in kept :
                      /\ Lower(values[i].name) = k
                      /\ \A j \in kept :
                            Lower(values[j].name) = k => j <= i]]

_get_commands(values) == DictComp(values)

\* ---------------------------------------------------------------- parser
HelpFlag == <<"-","h">>

\* add_subparsers without required=True
SubparsersOptional == FALSE

\* add_subparsers(dest="subcommand", required=True)
SubparsersRequired == TRUE

\* add_args that never passes default= to add_argument
add_args_without_default(cls) ==
    IF InMro("CommandProxyMixin", cls)
    THEN [nargs |-> "*", default |-> <<>>]
    ELSE [nargs |-> "none", default |-> <<>>]

\* the add_args a class resolves to, as the positional it declares:
\* CommandProxyMixin.add_args declares "args" with nargs="*",
\* CommandMixin.add_args declares nothing
add_args(cls) ==
    IF InMro("CommandProxyMixin", cls)
    THEN [nargs |-> "*",
          default |-> IF cls.default # None THEN <<cls.default>> ELSE <<>>]
    ELSE [nargs |-> "none", default |-> <<>>]

\* parser with a sub-parser for every subclass of CommandMixin, the
\* helper CommandProxyMixin included
build_parser_all_subclasses(values) ==
    LET registry == _get_commands(values)
        helper   == Lower(CommandProxyMixin.name)
    IN  [name \in DOMAIN registry \cup {helper} |->
            IF name \in DOMAIN registry THEN add_args(registry[name])
            ELSE add_args(CommandProxyMixin)]

\* one sub-parser per entry of the registry
build_parser(values) ==
    LET registry == _get_commands(values)
    IN  [name \in DOMAIN registry |-> add_args(registry[name])]

\* argparse takes a token for an option when it starts with "-" and is
\* longer than one character
IsOption(token) == Len(token) > 1 /\ token[1] = "-"

\* index of the first token that is not an option, 0 when there is none
FirstPositional(tokens) ==
    IF \A i \in DOMAIN tokens : IsOption(tokens[i])
    THEN 0
    ELSE CHOOSE i \in DOMAIN tokens :
            ~IsOption(tokens[i]) /\ \A j \in 1..(i - 1) : IsOption(tokens[j])

Namespace(status, ns) == [status |-> status, ns |-> ns]

\* parser.parse_args(): "ok" with the namespace's __dict__, "error" for
\* a usage error (exit 2), "help" when -h prints the help (exit 0)
parse_args(parser, tokens) ==
    LET i == FirstPositional(tokens)
    IN  IF i = 0
        THEN IF HelpFlag \in Range(tokens) THEN Namespace("help", <<>>)
             ELSE IF SubparsersRequired \/ tokens # <<>>
                  THEN Namespace("error", <<>>)
                  ELSE Namespace("ok", "subcommand" :> None)
        ELSE IF HelpFlag \in Range(SubSeq(tokens, 1, i - 1))
             THEN Namespace("help", <<>>)
        ELSE IF tokens[i] \notin DOMAIN parser
             THEN Namespace("error", <<>>)
        ELSE LET rest == SubSeq(tokens, i + 1, Len(tokens))
                 sub  == parser[tokens[i]]
             IN  IF HelpFlag \in Range(rest) THEN Namespace("help", <<>>)
                 ELSE IF i > 1 \/ \E j \in DOMAIN rest : IsOption(rest[j])
                      THEN Namespace("error", <<>>)
                 ELSE IF sub.nargs = "none"
                      THEN IF rest # <<>> THEN Namespace("error", <<>>)
                           ELSE Namespace("ok", "subcommand" :> tokens[i])
                 ELSE Namespace("ok",
                         ("subcommand" :> tokens[i]) @@
                         ("args" :> IF rest = <<>> THEN sub.default
                                    ELSE rest))

\* ---------------------------------------------------------------- run
\* the class whose run a command class resolves to along its __mro__
RunOf(cls) ==
    IF cls.ownRun THEN cls.id
    ELSE IF InMro("CommandProxyMixin", cls) THEN "CommandProxyMixin"
    ELSE "CommandMixin"

\* command line that keeps the first argument only
ProxyCmdFirstArg(cls, args) ==
    LET cmd == SelectSeq(Split(cls.command, " "), NonEmpty)
    IN  Join(cmd \o SubSeq(args, 1, 1), <<" ">>)

\* the shell command line of CommandProxyMixin.run
ProxyCmd(cls, args) ==
    LET cmd == SelectSeq(Split(cls.command, " "), NonEmpty)
    IN  Join(cmd \o args, <<" ">>)

\* a base run that is a silent no-op
CommandMixin_run_pass == [raises |-> "None", spawn |-> <<>>]

\* CommandMixin.run raises
CommandMixin_run == [raises |-> "NotImplementedError", spawn |-> <<>>]

\* what calling run(**kwargs) on an instance of cls does: the exception
\* it raises and the shell commands it hands to subprocess.run
RunEffect(cls, kwargs) ==
    IF RunOf(cls) = "CommandMixin" THEN CommandMixin_run
    ELSE IF RunOf(cls) = "CommandProxyMixin"
         THEN IF DOMAIN kwargs = {"args"}
              THEN [raises |-> "None",
                    spawn |-> <<ProxyCmd(cls, kwargs["args"])>>]
              ELSE [raises |-> "TypeError", spawn |-> <<>>]
    ELSE [raises |-> "None", spawn |-> <<>>]

\* subprocess.run(..., check=True)
SubprocessRaisesOnFailure(returncode) == returncode # 0

\* subprocess.run(..., shell=True) is called without check=True: the
\* child's return code raises nothing
SubprocessRaises(returncode) == FALSE

\* ---------------------------------------------------------------- state
\* command-line tokens a run may be given
Tokens ==
    { <<"t","e","s","t">>, <<"f","o","o">>, <<"m">>, HelpFlag, <<"-","x">> }

\* sys.argv[1:]
ArgvSet == UNION {[1..n -> Tokens] : n \in 0..MaxArgs}

\* return codes of the spawned shell
ReturnCodes == {0, 1}

VARIABLES
    globals,        \* globals().values() of the module, in insertion order
    argv,           \* sys.argv[1:]
    pc,             \* the line of main() about to be executed
    commands,       \* main's local `commands`
    parser,         \* main's local `parser`: name -> sub-parser
    args,           \* main's local `args`: the namespace's __dict__
    command_name,   \* main's local `command_name`
    command_klass,  \* main's local `command_klass`
    instances,      \* ids of the classes instantiated so far
    calls,          \* the calls of run made so far
    spawned,        \* shell command lines given to subprocess.run so far
    child,          \* "none", "running" or "exited"
    returncode,     \* return code of the exited child
    outcome,        \* how the process ended
    exitStatus      \* exit status of the process, -1 while it runs

vars == <<globals, argv, pc, commands, parser, args, command_name,
          command_klass, instances, calls, spawned, child, returncode,
          outcome, exitStatus>>

\* the interpreter before it executes the module
Init ==
    /\ globals = <<>>
    /\ argv = <<>>
    /\ pc = "load"
    /\ commands = <<>>
    /\ parser = <<>>
    /\ args = <<>>
    /\ command_name = None
    /\ command_klass = NoClass
    /\ instances = <<>>
    /\ calls = <<>>
    /\ spawned = <<>>
    /\ child = "none"
    /\ returncode = 0
    /\ outcome = "running"
    /\ exitStatus = -1

\* the process ends: sys.exit(status) or an uncaught exception
Exit(how, status) ==
    /\ pc' = "done"
    /\ outcome' = how
    /\ exitStatus' = status

\* `python manage.py <argv>`: the module body runs (lines 15-71 and the
\* classes the user added), which fills globals(), and line 103 calls main()
LoadModule ==
    /\ pc = "load"
    /\ \E d \in UserDecls : globals' = TemplateGlobals \o d
    /\ \E a \in ArgvSet : argv' = a
    /\ pc' = "get_commands"
    /\ UNCHANGED <<commands, parser, args, command_name, command_klass,
                   instances, calls, spawned, child, returncode, outcome,
                   exitStatus>>

\* line 93: commands = _get_commands()
GetCommands ==
    /\ pc = "get_commands"
    /\ commands' = _get_commands(globals)
    /\ pc' = "build_parser"
    /\ UNCHANGED <<globals, argv, parser, args, command_name, command_klass,
                   instances, calls, spawned, child, returncode, outcome,
                   exitStatus>>

\* line 94: parser = build_parser()
BuildParser ==
    /\ pc = "build_parser"
    /\ parser' = build_parser(globals)
    /\ pc' = "parse_args"
    /\ UNCHANGED <<globals, argv, commands, args, command_name,
                   command_klass, instances, calls, spawned, child,
                   returncode, outcome, exitStatus>>

\* line 95: args = parser.parse_args().__dict__
ParseArgs ==
    /\ pc = "parse_args"
    /\ LET parsed == parse_args(parser, argv)
       IN  CASE parsed.status = "ok" ->
                  /\ args' = parsed.ns
                  /\ pc' = "pop"
                  /\ UNCHANGED <<outcome, exitStatus>>
             [] parsed.status = "error" ->
                  /\ Exit("usage error", 2)
                  /\ UNCHANGED args
             [] parsed.status = "help" ->
                  /\ Exit("help", 0)
                  /\ UNCHANGED args
    /\ UNCHANGED <<globals, argv, commands, parser, command_name,
                   command_klass, instances, calls, spawned, child,
                   returncode>>

\* a lookup that leaves the key in the dict
PopKeepsKey(dict, key) == dict

\* dict.pop(key): the dict without the key
Pop(dict, key) == [k \in DOMAIN dict \ {key} |-> dict[k]]

\* line 96: command_name = args.pop("subcommand")
PopSubcommand ==
    /\ pc = "pop"
    /\ command_name' = args["subcommand"]
    /\ args' = Pop(args, "subcommand")
    /\ pc' = "lookup"
    /\ UNCHANGED <<globals, argv, commands, parser, command_klass,
                   instances, calls, spawned, child, returncode, outcome,
                   exitStatus>>

\* line 97: command_klass = commands[command_name]
Lookup ==
    /\ pc = "lookup"
    /\ IF command_name \in DOMAIN commands
       THEN /\ command_klass' = commands[command_name]
            /\ pc' = "instantiate"
            /\ UNCHANGED <<outcome, exitStatus>>
       ELSE /\ Exit("KeyError", 1)
            /\ UNCHANGED command_klass
    /\ UNCHANGED <<globals, argv, commands, parser, args, command_name,
                   instances, calls, spawned, child, returncode>>

\* line 98: command = command_klass()
Instantiate ==
    /\ pc = "instantiate"
    /\ instances' = Append(instances, command_klass.id)
    /\ pc' = "run"
    /\ UNCHANGED <<globals, argv, commands, parser, args, command_name,
                   command_klass, calls, spawned, child, returncode,
                   outcome, exitStatus>>

\* line 99: command.run(**args), up to the point where run raises,
\* returns, or blocks in subprocess.run on the spawned shell
CallRun ==
    /\ pc = "run"
    /\ calls' = Append(calls, [klass |-> command_klass.id, kwargs |-> args])
    /\ LET effect == RunEffect(command_klass, args)
       IN  IF effect.raises # "None"
           THEN /\ Exit(effect.raises, 1)
                /\ UNCHANGED <<spawned, child>>
           ELSE IF effect.spawn # <<>>
           THEN /\ spawned' = spawned \o effect.spawn
                /\ child' = "running"
                /\ pc' = "wait"
                /\ UNCHANGED <<outcome, exitStatus>>
           ELSE /\ pc' = "return"
                /\ UNCHANGED <<spawned, child, outcome, exitStatus>>
    /\ UNCHANGED <<globals, argv, commands, parser, args, command_name,
                   command_klass, instances, returncode>>

\* the spawned shell exits with some return code
ChildExit ==
    /\ child = "running"
    /\ \E code \in ReturnCodes : returncode' = code
    /\ child' = "exited"
    /\ UNCHANGED <<globals, argv, pc, commands, parser, args, command_name,
                   command_klass, instances, calls, spawned, outcome,
                   exitStatus>>

\* Popen without wait: run returns while the child may still run
WaitChildNoWait ==
    /\ pc = "wait"
    /\ pc' = "return"
    /\ UNCHANGED <<globals, argv, commands, parser, args, command_name,
                   command_klass, instances, calls, spawned, child,
                   returncode, outcome, exitStatus>>

\* line 65: subprocess.run returns once the child has exited
WaitChild ==
    /\ pc = "wait"
    /\ child = "exited"
    /\ IF SubprocessRaises(returncode)
       THEN Exit("CalledProcessError", 1)
       ELSE /\ pc' = "return"
            /\ UNCHANGED <<outcome, exitStatus>>
    /\ UNCHANGED <<globals, argv, commands, parser, args, command_name,
                   command_klass, instances, calls, spawned, child,
                   returncode>>

\* main() returns and the interpreter exits with status 0
MainReturn ==
    /\ pc = "return"
    /\ Exit("ok", 0)
    /\ UNCHANGED <<globals, argv, commands, parser, args, command_name,
                   command_klass, instances, calls, spawned, child,
                   returncode>>

\* the steps of the single dispatcher thread
MainStep ==
    \/ LoadModule
    \/ GetCommands
    \/ BuildParser
    \/ ParseArgs
    \/ PopSubcommand
    \/ Lookup
    \/ Instantiate
    \/ CallRun
    \/ WaitChild
    \/ MainReturn

Next ==
    \/ MainStep
    \/ ChildExit

Spec == Init /\ [][Next]_vars

\* the interpreter keeps executing main(); the child may never exit
FairSpec == Spec /\ WF_vars(MainStep)

TypeOK ==
    /\ pc \in {"load", "get_commands", "build_parser", "parse_args", "pop",
               "lookup",
               "instantiate", "run", "wait", "return", "done"}
    /\ child \in {"none", "running", "exited"}
    /\ returncode \in ReturnCodes
    /\ exitStatus \in {-1, 0, 1, 2}

\* ================================================================ claims

C7_AsStated ==
    pc \notin {"load", "get_commands"} =>
        \A i, j \in DOMAIN globals :
            (/\ i < j
             /\ "CommandMixin" \in Range(globals[i].mro)
             /\ "CommandMixin" \in Range(globals[j].mro)
             /\ globals[i].id \notin {"CommandMixin", "CommandProxyMixin"}
             /\ globals[j].id \notin {"CommandMixin", "CommandProxyMixin"}
             /\ Lower(globals[i].name) = Lower(globals[j].name)
             /\ \A h \in 1..(i - 1) :
                    Lower(globals[h].name) # Lower(globals[i].name))
            => commands[Lower(globals[i].name)] = globals[i]

\* C7 amended: when two declared command types lower-case to the same
\* name, the registry holds one entry for that name, and its value is the
\* one that comes last in globals(); the earlier one is dropped and is the
\* value of no entry.
C7_LastDeclaredWins ==
    pc \notin {"load", "get_commands"} =>
        \A i, j \in DOMAIN globals :
            (/\ i < j
             /\ "CommandMixin" \in Range(globals[i].mro)
             /\ "CommandMixin" \in Range(globals[j].mro)
             /\ globals[i].id \notin {"CommandMixin", "CommandProxyMixin"}
             /\ globals[j].id \notin {"CommandMixin", "CommandProxyMixin"}
             /\ Lower(globals[i].name) = Lower(globals[j].name)
             /\ \A h \in (j + 1)..Len(globals) :
                    Lower(globals[h].name) # Lower(globals[j].name))
            => /\ commands[Lower(globals[j].name)] = globals[j]
               /\ \A k \in DOMAIN commands : commands[k] # globals[i]

\* class TEST was declared after class Test and took the name "test"
C7_Witness ==
    /\ pc = "build_parser"
    /\ \E i, j \in DOMAIN globals :
          i < j /\ globals[i] = Test /\ globals[j] = UserTEST
    /\ commands[<<"t","e","s","t">>] = UserTEST

\* C2 as stated: with no subcommand, or with a subcommand name that is
\* not a registry key, the process ends in a usage error with a non-zero
\* exit status, and no command is instantiated, run or spawned.
C2_AsStated ==
    (/\ pc \notin {"load", "get_commands", "build_parser", "parse_args"}
     /\ \/ FirstPositional(argv) = 0
        \/ argv[FirstPositional(argv)] \notin DOMAIN commands)
    => /\ pc = "done"
       /\ outcome = "usage error"
       /\ exitStatus # 0
       /\ instances = <<>> /\ calls = <<>> /\ spawned = <<>>
       /\ child = "none"

\* C2 amended: with no subcommand, or with a subcommand name that is not a
\* registry key, the process ends in a usage error with exit status 2,
\* unless a -h option precedes the subcommand position, in which case the
\* help is printed and the exit status is 0; in both cases no command is
\* instantiated, no run is called and no child is spawned.
C2_UsageErrorOrHelp ==
    (/\ pc \notin {"load", "get_commands", "build_parser", "parse_args"}
     /\ \/ FirstPositional(argv) = 0
        \/ argv[FirstPositional(argv)] \notin DOMAIN commands)
    => /\ pc = "done"
       /\ instances = <<>> /\ calls = <<>> /\ spawned = <<>>
       /\ child = "none"
       /\ IF \E i \in DOMAIN argv :
                /\ argv[i] = <<"-","h">>
                /\ \A j \in 1..(i - 1) : IsOption(argv[j])
          THEN outcome = "help" /\ exitStatus = 0
          ELSE outcome = "usage error" /\ exitStatus = 2

\* an unknown subcommand name was rejected
C2_Witness ==
    /\ pc = "done"
    /\ argv = << <<"m">> >>
    /\ <<"m">> \notin DOMAIN commands
    /\ outcome = "usage error"
    /\ exitStatus = 2

\* C3: `test` without argument runs "python -m unittest discover", and
\* `test <module>` runs "python -m unittest <module>".
C3_TestArgument ==
    (pc \in {"wait", "return", "done"} /\ command_klass = Test) =>
        /\ Len(argv) = 1 =>
              /\ calls[1].kwargs["args"] = << <<"d","i","s","c","o","v","e","r">> >>
              /\ spawned = << <<"p","y","t","h","o","n"," ","-","m"," ",
                                "u","n","i","t","t","e","s","t"," ",
                                "d","i","s","c","o","v","e","r">> >>
        /\ Len(argv) = 2 =>
              /\ calls[1].kwargs["args"] = <<argv[2]>>
              /\ spawned = << <<"p","y","t","h","o","n"," ","-","m"," ",
                                "u","n","i","t","t","e","s","t"," ">>
                              \o argv[2] >>

\* `test m` spawned the runner on module m
C3_Witness ==
    /\ pc = "wait"
    /\ command_klass = Test
    /\ argv = << <<"t","e","s","t">>, <<"m">> >>
    /\ Len(spawned) = 1

\* C4: after a successful parse main() instantiates exactly one command,
\* the registry entry under the parsed subcommand name, and calls its run
\* once with the other parsed arguments as keywords, never `subcommand`.
C4_OneCommandOneRun ==
    /\ Len(instances) <= 1
    /\ Len(calls) <= 1
    /\ (\/ pc \in {"wait", "return"}
        \/ pc = "done" /\ outcome \notin {"usage error", "help", "KeyError"})
       => LET ns == parse_args(parser, argv).ns
          IN  /\ instances = <<commands[ns["subcommand"]].id>>
              /\ Len(calls) = 1
              /\ calls[1].klass = commands[ns["subcommand"]].id
              /\ "subcommand" \notin DOMAIN calls[1].kwargs
              /\ DOMAIN calls[1].kwargs = DOMAIN ns \ {"subcommand"}
              /\ \A k \in DOMAIN calls[1].kwargs : calls[1].kwargs[k] = ns[k]
    /\ (pc = "done" /\ outcome \in {"usage error", "help"})
       => instances = <<>> /\ calls = <<>>
    /\ outcome # "KeyError"

\* a proxy command was run with the one keyword `args` and returned
C4_Witness ==
    /\ pc = "done"
    /\ outcome = "ok"
    /\ Len(instances) = 1
    /\ Len(calls) = 1
    /\ DOMAIN calls[1].kwargs = {"args"}

\* C5: the names the parser accepts are the keys of the registry main()
\* computed, and the lookup of an accepted name never fails.
C5_ParserMatchesRegistry ==
    /\ pc \notin {"load", "get_commands", "build_parser"}
          => DOMAIN parser = DOMAIN commands
    /\ pc \in {"lookup", "instantiate", "run", "wait", "return"}
          => command_name \in DOMAIN commands
    /\ outcome # "KeyError"

\* a name the parser accepted was found in a registry of two commands
C5_Witness ==
    /\ pc = "instantiate"
    /\ Cardinality(DOMAIN commands) = 2
    /\ command_klass = commands[command_name]

\* C6 as stated: `test` with two or more positional arguments is not
\* accepted and does not reach the runner.
C6_AsStated ==
    (/\ pc \notin {"load", "get_commands", "build_parser", "parse_args"}
     /\ Len(argv) >= 3
     /\ argv[1] = <<"t","e","s","t">>
     /\ \A i \in DOMAIN argv : ~IsOption(argv[i]))
    => /\ pc = "done"
       /\ outcome = "usage error"
       /\ spawned = <<>>

\* C6 amended: `test` accepts any number of positional arguments, zero or
\* more; all of them reach the runner, in order, joined by single spaces.
C6_AnyNumberOfArguments ==
    (/\ pc \in {"wait", "return", "done"}
     /\ command_klass = Test
     /\ Len(argv) >= 2)
    => /\ calls[1].kwargs["args"] = Tail(argv)
       /\ spawned = << <<"p","y","t","h","o","n"," ","-","m"," ",
                         "u","n","i","t","t","e","s","t"," ">>
                       \o Join(Tail(argv), <<" ">>) >>

\* `test m foo` spawned the runner with both arguments
C6_Witness ==
    /\ pc = "wait"
    /\ command_klass = Test
    /\ argv = << <<"t","e","s","t">>, <<"m">>, <<"f","o","o">> >>
    /\ spawned = << <<"p","y","t","h","o","n"," ","-","m"," ",
                      "u","n","i","t","t","e","s","t"," ","m"," ",
                      "f","o","o">> >>

\* C8: whatever return code the child exits with, the dispatcher ends the
\* same way: no error, exit status 0.
C8_ChildCodeNotPropagated ==
    /\ (pc = "done" /\ child = "exited")
          => outcome = "ok" /\ exitStatus = 0
    /\ (pc = "return" /\ child = "exited")
          => outcome = "running" /\ exitStatus = -1
    /\ outcome # "CalledProcessError"

\* the dispatcher ended after a child that failed
C8_Witness ==
    /\ pc = "done"
    /\ child = "exited"
    /\ returncode = 1
    /\ exitStatus = 0

\* C9: dispatching to a command whose run is CommandMixin.run ends in
\* NotImplementedError and spawns no child.
C9_BaseRunRaises ==
    (/\ Len(calls) = 1
     /\ ~command_klass.ownRun
     /\ "CommandProxyMixin" \notin Range(command_klass.mro))
    => /\ pc = "done"
       /\ outcome = "NotImplementedError"
       /\ exitStatus = 1
       /\ spawned = <<>>
       /\ child = "none"

\* TEST, which inherits run from CommandMixin, was dispatched to
C9_Witness ==
    /\ pc = "done"
    /\ command_klass = UserTEST
    /\ calls = <<[klass |-> "TEST", kwargs |-> <<>>]>>
    /\ outcome = "NotImplementedError"

\* C10: a proxy command spawns the child exactly once, the dispatcher does
\* not terminate while the child runs, and once the child has exited the
\* dispatcher terminates.
C10_LinearFlow ==
    /\ [](Len(spawned) <= 1 /\ Len(calls) <= 1 /\ Len(instances) <= 1)
    /\ []((pc = "done" /\ "CommandProxyMixin" \in Range(command_klass.mro))
            => Len(spawned) = 1 /\ child = "exited")
    /\ [](pc = "done" => child # "running")
    /\ (child = "exited" ~> pc = "done")

\* the dispatcher terminated after the child it spawned had exited
C10_Witness ==
    /\ pc = "done"
    /\ child = "exited"
    /\ Len(spawned) = 1
    /\ outcome = "ok"

====
